---- MODULE Spec2Model ----
(***************************************************************************)
(* FlapPy-bird: the simulation loop of src/flap.py, src/bird.py and        *)
(* src/pipe.py as a state machine.                                         *)
(*                                                                         *)
(* State: the Game's in_game flag, the Bird's fields and the PipeSpawner's *)
(* two deques and sprite group.  One action per handler: the frame update  *)
(* Game._update (Tick), the SPACE key (Flap) and the ESCAPE key (Toggle).  *)
(*                                                                         *)
(* Units.  The source computes in pixels and seconds on a 562 x 1000       *)
(* window with float positions.  The model is the same code on a reduced   *)
(* integer grid: lengths in cells, dt in whole time units, velocities in   *)
(* cells per time unit, so that vel * dt is exact and Rect's truncation of *)
(* a float coordinate is the identity.  The geometry constants keep the    *)
(* orderings of the source values (pipe_spacing > bird width, pipe image   *)
(* height > gap height, accel * dt does not divide max_vel_y, ...).        *)
(*                                                                         *)
(* Masks.  The image files are not part of the source; the bird's mask is  *)
(* taken to be its whole rectangle and the pipe's mask the two pipe        *)
(* segments that Pipe._render_image blits (the gap between is transparent).*)
(***************************************************************************)
EXTENDS Integers, Sequences, FiniteSets, TLC

(* ---------------- bounds of the model ---------------- *)
\* pipes spawned per session before the in-game frame update of a live bird
\* is cut off (a dead bird always falls to the ground)
MaxPipes == 5
\* in the runs that follow a dead bird to the ground: pipes spawned before
\* the frame update of the live bird is cut off
FallFrom == 3
\* in the same runs: pipes spawned after those before the frame update of
\* the dead bird is cut off
FallPipes == 2
\* the SPACE key is ignored by the model once the bird is this far above
\* the top of the screen
MaxHeight == 8
\* the long frame (a stalled main loop), in time units
DtBig == 4

(* ---------------- program constants (reduced grid) ---------------- *)
ScreenW == 11
FloorTop == 10
BirdX == 1
BirdW == 2
BirdH == 2
accel == 2
flap_vel_y == -4
max_vel_y == 5
InitMaxAngle == 45
DeadAngle == -90
PipeHitMaxAngle == 90
AnglePerVel == 11
WaitingMaxLen == 2
PipeW == 2
PipeImgH == 8
pipe_gap_height == 3
pipe_spacing == 4
pipe_vel_x == -1
Proximity == 5
PointValue == 1

\* play_area.centery: the play area is the screen above the floor
PlayCenterY == FloorTop \div 2

\* frame times the clock can deliver
Dts == {0, 1, DtBig}

\* random.randrange(pipe_gap_height, floor.rect.top): the two extremes
GapChoices == {pipe_gap_height, FloorTop - 1}

VARIABLES in_game, bird, pipes, ev

vars == <<in_game, bird, pipes, ev>>

Abs(n) == IF n < 0 THEN -n ELSE n

(* ---------------- rectangles ---------------- *)
BirdLeft == BirdX
BirdRight == BirdX + BirdW
BirdBottom(b) == b.rect_y + BirdH

PipeLeft(p) == p.x
PipeRight(p) == p.x + PipeW
PipeBottom(p) == p.gap_bottom_y + PipeImgH
PipeTop(p) == PipeBottom(p) - (2 * PipeImgH + pipe_gap_height)

\* half-open interval overlap, as pygame rect and mask overlap
Overlap(a1, a2, b1, b2) == a1 < b2 /\ b1 < a2

\* mutant of the mask test: the whole rectangle of the obstacle is solid
collide_mask_solid_gap(b, p) ==
    /\ Overlap(BirdLeft, BirdRight, PipeLeft(p), PipeRight(p))
    /\ Overlap(b.rect_y, BirdBottom(b), PipeTop(p), PipeBottom(p))

\* pg.sprite.collide_mask(bird, pipe)
collide_mask(b, p) ==
    /\ Overlap(BirdLeft, BirdRight, PipeLeft(p), PipeRight(p))
    /\ \/ Overlap(b.rect_y, BirdBottom(b), PipeTop(p), PipeTop(p) + PipeImgH)
       \/ Overlap(b.rect_y, BirdBottom(b), PipeBottom(p) - PipeImgH, PipeBottom(p))

\* pygame.sprite.collide_rect(bird, pipe), for comparison with the mask test
collide_rect(b, p) ==
    /\ Overlap(BirdLeft, BirdRight, PipeLeft(p), PipeRight(p))
    /\ Overlap(b.rect_y, BirdBottom(b), PipeTop(p), PipeBottom(p))

\* F at the value of e, with e evaluated once
Then(e, F(_)) == CHOOSE r \in {F(x) : x \in {e}} : TRUE

(* ---------------- Pipe and PipeSpawner ---------------- *)
\* mutant of Pipe.__init__: rect.right, not rect.x, set to the screen's right
NewPipe_right_at_edge(id, gap_bottom_y) ==
    [id |-> id, x |-> ScreenW - PipeW, gap_bottom_y |-> gap_bottom_y,
     is_moving |-> FALSE, counted |-> FALSE, point_value |-> PointValue]

NewPipe(id, gap_bottom_y) ==
    [id |-> id, x |-> ScreenW, gap_bottom_y |-> gap_bottom_y,
     is_moving |-> FALSE, counted |-> FALSE, point_value |-> PointValue]

\* PipeSpawner.__init__: the empty deques and group, and the gap height
\* computed from the window
EmptySpawner ==
    [waiting_pipes |-> <<>>, moving_pipes |-> <<>>, sprites |-> {}, spawned |-> 0,
     pipe_gap_height |-> pipe_gap_height]

\* deque(maxlen=n).append: a full deque drops its left end
DequeAppend(q, e, maxlen) ==
    IF Len(q) >= maxlen THEN Append(Tail(q), e) ELSE Append(q, e)

spawn_new_pipe(ps, gap_bottom_y) ==
    LET pipe == NewPipe(ps.spawned + 1, gap_bottom_y)
    IN  [ps EXCEPT !.waiting_pipes = DequeAppend(@, pipe, WaitingMaxLen),
                   !.sprites = @ \cup {pipe.id},
                   !.spawned = @ + 1]

\* mutant of _move_next_pipe(): waiting_pipes[0] instead of popleft()
move_next_pipe_keeps_waiting(ps) ==
    LET p == Head(ps.waiting_pipes)
    IN  [ps EXCEPT !.moving_pipes = Append(@, [p EXCEPT !.is_moving = TRUE])]

move_next_pipe(ps) ==
    LET p == Head(ps.waiting_pipes)
    IN  [ps EXCEPT !.waiting_pipes = Tail(@),
                   !.moving_pipes = Append(@, [p EXCEPT !.is_moving = TRUE])]

\* Pipe.update without the kill: the new position
Pipe_move(p, dt) ==
    IF p.is_moving THEN [p EXCEPT !.x = @ + pipe_vel_x * dt] ELSE p

\* Pipe.update: does the pipe kill() itself (leave every sprite Group)?
Pipe_kills(p) == PipeRight(p) < 0

\* Group.update(dt): Pipe.update on every sprite of the group.  kill()
\* removes the sprite from the Group only: the deques are untouched.
Group_update(ps, dt) ==
    LET upd(p) == IF p.id \in ps.sprites THEN Pipe_move(p, dt) ELSE p
        w2 == [i \in 1..Len(ps.waiting_pipes) |-> upd(ps.waiting_pipes[i])]
        m2 == [i \in 1..Len(ps.moving_pipes) |-> upd(ps.moving_pipes[i])]
        killed == {w2[i].id : i \in {j \in 1..Len(w2) : Pipe_kills(w2[j])}}
                  \cup {m2[i].id : i \in {j \in 1..Len(m2) : Pipe_kills(m2[j])}}
    IN  [ps EXCEPT !.waiting_pipes = w2, !.moving_pipes = m2,
                   !.sprites = @ \ killed]

\* mutant of the top-up loop: if instead of while, one pipe per update
spawn_once(ps, gaps) ==
    IF Len(ps.waiting_pipes) < WaitingMaxLen
    THEN spawn_new_pipe(ps, Head(gaps))
    ELSE ps

RECURSIVE spawn_loop(_, _)
spawn_loop(ps, gaps) ==
    IF Len(ps.waiting_pipes) < WaitingMaxLen
    THEN spawn_loop(spawn_new_pipe(ps, Head(gaps)), Tail(gaps))
    ELSE ps

\* how many pipes the top-up loop of the next update would spawn
SpawnsNeeded(ps) == WaitingMaxLen - Len(ps.waiting_pipes)

\* random.randrange(start, stop) raises ValueError on an empty range: the
\* first _spawn_new_pipe of an update raises when the gap height is not
\* below the floor's top
spawn_raises(ps) == SpawnsNeeded(ps) > 0 /\ ps.pipe_gap_height >= FloorTop

\* update() raises IndexError when _move_next_pipe pops an empty deque or
\* when moving_pipes[-1] or waiting_pipes[0] is read from an empty deque
index_raises(ps, gaps) ==
    LET s1 == spawn_loop(ps, gaps)
    IN  \/ Len(s1.moving_pipes) = 0 /\ Len(s1.waiting_pipes) = 0
        \/ LET s2 == IF Len(s1.moving_pipes) = 0 THEN move_next_pipe(s1) ELSE s1
            IN  Len(s2.moving_pipes) = 0 \/ Len(s2.waiting_pipes) = 0

\* mutant of update(): the next pipe is sent as soon as the gap reaches
\* pipe_spacing
PipeSpawner_update_sends_at_spacing(ps, dt, gaps) ==
    LET s1 == spawn_loop(ps, gaps)
        s2 == IF Len(s1.moving_pipes) = 0 THEN move_next_pipe(s1) ELSE s1
        last_pipe_right == PipeRight(s2.moving_pipes[Len(s2.moving_pipes)])
        next_pipe_left == PipeLeft(s2.waiting_pipes[1])
        s3 == IF Abs(last_pipe_right - next_pipe_left) >= pipe_spacing
              THEN move_next_pipe(s2) ELSE s2
    IN  Then(s3, LAMBDA s : Group_update(s, dt))

\* mutant of update(): the comparison with pipe_spacing is inverted
PipeSpawner_update_sends_when_near(ps, dt, gaps) ==
    LET s1 == spawn_loop(ps, gaps)
        s2 == IF Len(s1.moving_pipes) = 0 THEN move_next_pipe(s1) ELSE s1
        last_pipe_right == PipeRight(s2.moving_pipes[Len(s2.moving_pipes)])
        next_pipe_left == PipeLeft(s2.waiting_pipes[1])
        s3 == IF Abs(last_pipe_right - next_pipe_left) < pipe_spacing
              THEN move_next_pipe(s2) ELSE s2
    IN  Then(s3, LAMBDA s : Group_update(s, dt))

PipeSpawner_update(ps, dt, gaps) ==
    LET s1 == spawn_loop(ps, gaps)
        s2 == IF Len(s1.moving_pipes) = 0 THEN move_next_pipe(s1) ELSE s1
        last_pipe_right == PipeRight(s2.moving_pipes[Len(s2.moving_pipes)])
        next_pipe_left == PipeLeft(s2.waiting_pipes[1])
        s3 == IF Abs(last_pipe_right - next_pipe_left) > pipe_spacing
              THEN move_next_pipe(s2) ELSE s2
    IN  Then(s3, LAMBDA s : Group_update(s, dt))

\* mutant of reset(): the queued deque is not cleared
PipeSpawner_reset_keeps_waiting(ps) ==
    [ps EXCEPT !.sprites = {}, !.moving_pipes = <<>>, !.spawned = 0]

PipeSpawner_reset(ps) ==
    [ps EXCEPT !.sprites = {}, !.waiting_pipes = <<>>, !.moving_pipes = <<>>,
               !.spawned = 0]

(* ---------------- Bird ---------------- *)
\* BirdStateMemory.__init__: the saved attributes
BirdStateMemory(b) ==
    [is_alive |-> b.is_alive, on_ground |-> b.on_ground, score |-> b.score,
     rect_y |-> b.rect_y, y |-> b.y, vel_y |-> b.vel_y, angle |-> b.angle,
     max_angle |-> b.max_angle]

\* BirdStateMemory.reset_bird: bird.__dict__.update(memory.__dict__)
reset_bird(b) ==
    LET m == b.state_memory
    IN  [b EXCEPT !.is_alive = m.is_alive, !.on_ground = m.on_ground,
                  !.score = m.score, !.rect_y = m.rect_y, !.y = m.y,
                  !.vel_y = m.vel_y, !.angle = m.angle,
                  !.max_angle = m.max_angle]

\* A world g is [in_game, bird, pipes, ev]: the operators below are the
\* methods, each taking the world before the call to the world after it.

\* mutant of flap_up(): the impulse is added to the current velocity
flap_up_additive(g) ==
    IF g.bird.is_alive THEN [g EXCEPT !.bird.vel_y = @ + flap_vel_y] ELSE g

\* mutant of flap_up(): no is_alive guard
flap_up_when_dead(g) == [g EXCEPT !.bird.vel_y = flap_vel_y]

flap_up(g) ==
    IF g.bird.is_alive THEN [g EXCEPT !.bird.vel_y = flap_vel_y] ELSE g

increment_score(g, amount) ==
    IF g.bird.is_alive THEN [g EXCEPT !.bird.score = @ + amount] ELSE g

die(g) ==
    [g EXCEPT !.bird.angle = DeadAngle,
              !.bird.is_alive = ~ g.bird.is_alive]

\* a call of die(), counted in the history of the running handler
call_die(g) == [die(g) EXCEPT !.ev.dies = @ + 1]

\* mutant of revive(): the new state memory is taken before the reset
revive_saves_before_reset(g) ==
    IF ~ g.bird.is_alive
    THEN LET b1 == reset_bird(g.bird)
         IN  [g EXCEPT !.bird = [b1 EXCEPT !.state_memory = BirdStateMemory(g.bird)]]
    ELSE g

revive(g) ==
    IF ~ g.bird.is_alive
    THEN LET b1 == reset_bird(g.bird)
         IN  [g EXCEPT !.bird = [b1 EXCEPT !.state_memory = BirdStateMemory(b1)]]
    ELSE g

SpawnerEmpty(ps) ==
    ps.waiting_pipes = <<>> /\ ps.moving_pipes = <<>> /\ ps.sprites = {}

\* mutant of toggle_menu(): after the revive the game starts at once
toggle_menu_starts_after_revive(g) ==
    IF g.in_game THEN [g EXCEPT !.in_game = FALSE]
    ELSE IF g.bird.is_alive THEN [g EXCEPT !.in_game = TRUE]
    ELSE LET r == revive(g)
         IN  [r EXCEPT !.pipes = PipeSpawner_reset(r.pipes), !.in_game = TRUE]

toggle_menu(g) ==
    IF g.in_game THEN [g EXCEPT !.in_game = FALSE]
    ELSE IF g.bird.is_alive THEN [g EXCEPT !.in_game = TRUE]
    ELSE LET r == revive(g)
         IN  [r EXCEPT !.pipes = PipeSpawner_reset(r.pipes)]

\* a call of toggle_menu(), with what it found and what it left, recorded
\* in the history of the running handler
call_toggle_menu(g) ==
    LET g1 == toggle_menu(g)
    IN  [g1 EXCEPT !.ev.toggles = Append(@,
            [from_game |-> g.in_game, from_alive |-> g.bird.is_alive,
             from_score |-> g.bird.score, from_empty |-> SpawnerEmpty(g.pipes),
             to_game |-> g1.in_game, to_alive |-> g1.bird.is_alive,
             to_score |-> g1.bird.score, to_empty |-> SpawnerEmpty(g1.pipes)])]

\* mutant of check_floor_collision(): die() without the is_alive guard
check_floor_collision_unguarded(g) ==
    IF BirdBottom(g.bird) > FloorTop
    THEN LET g2 == call_die([g EXCEPT !.bird.on_ground = TRUE])
         IN  IF g2.in_game THEN call_toggle_menu(g2) ELSE g2
    ELSE [g EXCEPT !.bird.on_ground = FALSE]

check_floor_collision(g) ==
    IF BirdBottom(g.bird) > FloorTop
    THEN LET g1 == [g EXCEPT !.bird.on_ground = TRUE]
             g2 == IF g1.bird.is_alive THEN call_die(g1) ELSE g1
         IN  IF g2.in_game THEN call_toggle_menu(g2) ELSE g2
    ELSE [g EXCEPT !.bird.on_ground = FALSE]

\* the test of one pipe in check_pipe_collision
PipeHit(b, p) ==
    /\ 0 < PipeRight(p)
    /\ PipeLeft(p) - BirdRight < Proximity
    /\ collide_mask(b, p)

RECURSIVE check_pipe_collision_from(_, _)
check_pipe_collision_from(g, i) ==
    IF i > Len(g.pipes.moving_pipes) THEN g
    ELSE IF PipeHit(g.bird, g.pipes.moving_pipes[i])
         THEN check_pipe_collision_from(
                  call_die([g EXCEPT !.bird.max_angle = PipeHitMaxAngle]), i + 1)
         ELSE check_pipe_collision_from(g, i + 1)

check_pipe_collision(g) == check_pipe_collision_from(g, 1)

\* mutant of the test in update_score: passed as soon as the edges touch
PipePassed_inclusive(p) == ~ p.counted /\ BirdLeft >= PipeRight(p)

\* the test of one pipe in update_score
PipePassed(p) == ~ p.counted /\ BirdLeft > PipeRight(p)

RECURSIVE update_score_from(_, _)
update_score_from(g, i) ==
    IF i > Len(g.pipes.moving_pipes) THEN g
    ELSE IF PipePassed(g.pipes.moving_pipes[i])
         THEN update_score_from(
                  [increment_score(g, 1)
                      EXCEPT !.pipes.moving_pipes[i].counted = TRUE], i + 1)
         ELSE update_score_from(g, i + 1)

update_score(g) == update_score_from(g, 1)

\* the angle _update_image derives from the velocity
RotationAngle(vel_y, max_angle) ==
    LET a == - (vel_y * AnglePerVel)
    IN  IF Abs(a) > max_angle
        THEN (IF a > 0 THEN max_angle ELSE - max_angle)
        ELSE a

update_image(g) ==
    IF g.in_game
    THEN [g EXCEPT !.bird.angle = RotationAngle(g.bird.vel_y, g.bird.max_angle)]
    ELSE g

\* mutant of the velocity step: gravity acts outside the game too
UpdateVel_always(vel_y, dt, ingame) ==
    IF vel_y < max_vel_y THEN vel_y + accel * dt ELSE vel_y

\* the velocity step of Bird.update
UpdateVel(vel_y, dt, ingame) ==
    IF ingame /\ vel_y < max_vel_y THEN vel_y + accel * dt ELSE vel_y

\* rect.centery = y
RectYOfCenter(y) == y - (BirdH \div 2)

\* mutant of update(): the obstacle checks run on a dead bird too
Bird_update_checks_dead(g, dt) ==
    LET ingame == g.in_game
        v == UpdateVel(g.bird.vel_y, dt, ingame)
        g1 == [g EXCEPT !.bird.vel_y = v]
        g2 == IF ingame /\ ~ g1.bird.on_ground
              THEN [g1 EXCEPT !.bird.y = @ + v * dt,
                              !.bird.rect_y = RectYOfCenter(g1.bird.y + v * dt)]
              ELSE g1
        g3 == IF ~ g2.bird.on_ground THEN check_floor_collision(g2) ELSE g2
        g4 == update_score(check_pipe_collision(g3))
    IN  IF ~ g4.bird.on_ground THEN update_image(g4) ELSE g4

Bird_update(g, dt) ==
    LET ingame == g.in_game
        v == UpdateVel(g.bird.vel_y, dt, ingame)
        g1 == [g EXCEPT !.bird.vel_y = v]
        g2 == IF ingame /\ ~ g1.bird.on_ground
              THEN [g1 EXCEPT !.bird.y = @ + v * dt,
                              !.bird.rect_y = RectYOfCenter(g1.bird.y + v * dt)]
              ELSE g1
        g3 == IF ~ g2.bird.on_ground THEN check_floor_collision(g2) ELSE g2
        g4 == IF g3.bird.is_alive
              THEN update_score(check_pipe_collision(g3))
              ELSE g3
    IN  IF ~ g4.bird.on_ground THEN update_image(g4) ELSE g4

(* ---------------- Game ---------------- *)
\* Menu.update -> Button.update: the start button calls toggle_menu when
\* the mouse is released on it in this frame
Menu_update(g, click) == IF click THEN call_toggle_menu(g) ELSE g

\* mutant of _update(): in_game is read once, before the bird's update
Game_update_cached_in_game(g, dt, gaps, click) ==
    Then(Bird_update(g, dt), LAMBDA g1 :
        IF g.in_game
        THEN IF spawn_raises(g1.pipes)
             THEN [g1 EXCEPT !.ev.raised = "ValueError"]
             ELSE IF index_raises(g1.pipes, gaps)
             THEN [g1 EXCEPT !.ev.raised = "IndexError"]
             ELSE [g1 EXCEPT !.pipes = PipeSpawner_update(g1.pipes, dt, gaps)]
        ELSE Menu_update(g1, click))

\* an exception of pipes.update leaves _update, run() and the program
Game_update(g, dt, gaps, click) ==
    Then(Bird_update(g, dt), LAMBDA g1 :
        IF g1.in_game
        THEN IF spawn_raises(g1.pipes)
             THEN [g1 EXCEPT !.ev.raised = "ValueError"]
             ELSE IF index_raises(g1.pipes, gaps)
             THEN [g1 EXCEPT !.ev.raised = "IndexError"]
             ELSE [g1 EXCEPT !.pipes = PipeSpawner_update(g1.pipes, dt, gaps)]
        ELSE Menu_update(g1, click))

NoEv(op) ==
    [op |-> op, dt |-> 0, click |-> FALSE, dies |-> 0, toggles |-> <<>>,
     raised |-> "no"]

World == [in_game |-> in_game, bird |-> bird, pipes |-> pipes, ev |-> ev]

Becomes(g) ==
    \E w \in {g} :
        /\ in_game' = w.in_game
        /\ bird' = w.bird
        /\ pipes' = w.pipes
        /\ ev' = w.ev

\* Bird.__init__ up to the creation of the state memory
NewBird ==
    LET b == [is_alive |-> TRUE, on_ground |-> FALSE, score |-> 0,
              y |-> PlayCenterY, rect_y |-> PlayCenterY, vel_y |-> 0,
              angle |-> 0, max_angle |-> InitMaxAngle]
    IN  [is_alive |-> b.is_alive, on_ground |-> b.on_ground, score |-> b.score,
         y |-> b.y, rect_y |-> b.rect_y, vel_y |-> b.vel_y, angle |-> b.angle,
         max_angle |-> b.max_angle, state_memory |-> BirdStateMemory(b)]

\* Game.__init__: in_game = False, the spawner, then Bird(self), whose
\* constructor ends with self.update(dt=0)
NewGame ==
    Bird_update([in_game |-> FALSE, bird |-> NewBird, pipes |-> EmptySpawner,
                 ev |-> NoEv("init")], 0)

Init ==
    /\ in_game = NewGame.in_game
    /\ bird = NewGame.bird
    /\ pipes = NewGame.pipes
    /\ ev = NewGame.ev

\* the gap positions random.randrange draws in one frame, one for each
\* pipe the top-up loop spawns
GapDraws ==
    [1..(IF in_game /\ ~ spawn_raises(pipes)
         THEN SpawnsNeeded(pipes) ELSE 0) -> GapChoices]

\* one frame of run(): _update(dt) with the frame's draws and mouse release
Frame(dt, click, gaps) ==
    /\ ev.raised = "no"
    /\ (in_game /\ bird.is_alive) =>
          pipes.spawned + SpawnsNeeded(pipes) <= MaxPipes
    /\ Becomes(Game_update(
           [World EXCEPT !.ev = [NoEv("tick") EXCEPT !.dt = dt, !.click = click]],
           dt, gaps, click))

Tick == \E dt \in Dts, click \in BOOLEAN, gaps \in GapDraws : Frame(dt, click, gaps)

\* EventHandler._keyboard: K_SPACE while in game
Flap ==
    /\ ev.raised = "no"
    /\ in_game
    /\ bird.y > - MaxHeight
    /\ Becomes(flap_up([World EXCEPT !.ev = NoEv("flap")]))

\* EventHandler._keyboard: K_ESCAPE
Toggle ==
    /\ ev.raised = "no"
    /\ Becomes(call_toggle_menu([World EXCEPT !.ev = NoEv("toggle")]))

Next == Tick \/ Flap \/ Toggle

Spec == Init /\ [][Next]_vars

\* the frame update of a dead bird in game, of positive length and without
\* a press of the start button
FallTick ==
    /\ ~ bird.is_alive
    /\ in_game
    /\ pipes.spawned + SpawnsNeeded(pipes) <= FallFrom + FallPipes
    /\ \E dt \in Dts \ {0}, gaps \in GapDraws : Frame(dt, FALSE, gaps)

\* a player who never presses ESCAPE and who, once the bird is dead in
\* game, only presses SPACE while the frames go on; the run ends when the
\* bird is dead in MENU
NextFall ==
    \/ /\ bird.is_alive
       /\ pipes.spawned + SpawnsNeeded(pipes) <= FallFrom
       /\ Tick \/ Flap
    \/ FallTick
    \/ ~ bird.is_alive /\ Flap

\* run() never stops calling _update: the frames of a falling bird go on
SpecFall == Init /\ [][NextFall]_vars /\ WF_vars(FallTick)

\* gap heights a window and floor image other than the shipped ones can
\* give: the shipped one, and two that leave no room for the gap
CfgGapHeights == {pipe_gap_height, FloorTop, FloorTop + 1}

\* Game.__init__ with any of these gap heights
InitCfg ==
    /\ in_game = NewGame.in_game
    /\ bird = NewGame.bird
    /\ \E h \in CfgGapHeights : pipes = [NewGame.pipes EXCEPT !.pipe_gap_height = h]
    /\ ev = NewGame.ev

\* the game under any of the configurations
SpecCfg == InitCfg /\ [][Next]_vars

\* Bird.die() called from outside the frame loop, on a bird that has landed
Die ==
    /\ bird.on_ground
    /\ Becomes(call_die([World EXCEPT !.ev = NoEv("die")]))

\* a driver that plays the game, then calls die() on the landed bird, any
\* number of times, and ends there
NextDie ==
    \/ ev.op # "die" /\ Next
    \/ Die

\* the game with die() also called directly
SpecDie == Init /\ [][NextDie]_vars

(* ---------------- helpers of the properties ---------------- *)
Range(q) == {q[i] : i \in 1..Len(q)}

\* the pipes of moving_pipes whose counted flag goes from false to true
\* in this step
NewlyCounted ==
    {p \in Range(pipes.moving_pipes) :
        /\ ~ p.counted
        /\ \E q \in Range(pipes'.moving_pipes) : q.id = p.id /\ q.counted}

RECURSIVE SumPoints(_)
SumPoints(S) ==
    IF S = {} THEN 0
    ELSE LET p == CHOOSE q \in S : TRUE IN p.point_value + SumPoints(S \ {p})

\* a step that starts a new session: toggle_menu took its revive branch
IsReset == \E i \in 1..Len(ev'.toggles) :
              ~ ev'.toggles[i].from_game /\ ~ ev'.toggles[i].from_alive

\* C1: vel_y never exceeds max_vel_y (each update leaves
\* vel_y = min(vel_y + accel*dt, max_vel_y)).
C1_VelNeverExceedsMax == bird.vel_y <= max_vel_y

\* C2: between resets the score never decreases and grows by exactly the
\* point value of each obstacle whose counted flag becomes true, once each.
C2_ScoreOncePerCounted ==
    [][~ IsReset => bird'.score = bird.score + SumPoints(NewlyCounted)]_vars

AllPipes(ps) == Range(ps.waiting_pipes) \cup Range(ps.moving_pipes)

\* C3: an obstacle's counted flag is never set back, and it is set only by
\* a frame update in which the obstacle is active and the avatar's left edge
\* is strictly right of the obstacle's right edge.
C3_CountedOnceAfterPassing ==
    [][\A p \in AllPipes(pipes) : \A q \in AllPipes(pipes') :
          q.id = p.id =>
             /\ p.counted => q.counted
             /\ (~ p.counted /\ q.counted) =>
                    /\ ev'.op = "tick"
                    /\ p \in Range(pipes.moving_pipes)
                    /\ BirdLeft > PipeRight(p)]_vars

\* an obstacle has been counted by the frame update just run
C3_Witness ==
    /\ ev.op = "tick"
    /\ bird.score > 0
    /\ \E p \in Range(pipes.moving_pipes) : p.counted /\ BirdLeft > PipeRight(p)

\* the frame update just run was in game to its end: PipeSpawner.update ran
SpawnerRan == ev.op = "tick" /\ in_game /\ ev.toggles = <<>>

\* C4: after every in-game PipeSpawner.update the active deque holds no
\* obstacle whose right edge is left of the screen (rect.right < 0).
C4_OffscreenLeavesMoving ==
    SpawnerRan => \A p \in Range(pipes.moving_pipes) : ~ (PipeRight(p) < 0)

\* C5: a frame update that starts outside IN_GAME (and in which the start
\* button is not pressed) changes nothing of the bird or of the obstacles.
C5_MenuTickChangesNothing ==
    [][(~ in_game /\ ev'.op = "tick" /\ ~ ev'.click) =>
          /\ bird'.y = bird.y /\ bird'.rect_y = bird.rect_y
          /\ bird'.vel_y = bird.vel_y
          /\ bird'.is_alive = bird.is_alive
          /\ bird'.on_ground = bird.on_ground
          /\ bird'.score = bird.score
          /\ pipes'.waiting_pipes = pipes.waiting_pipes
          /\ pipes'.moving_pipes = pipes.moving_pipes]_vars

\* C6: every call of toggle_menu makes one of three transitions: IN_GAME to
\* MENU (bird untouched); MENU to IN_GAME with a live bird; MENU to MENU
\* with a dead bird, which is revived and the spawner emptied.  No call
\* enters IN_GAME with a dead bird.
C6_ToggleTransitions ==
    \A t \in Range(ev.toggles) :
        /\ t.from_game =>
              ~ t.to_game /\ t.to_alive = t.from_alive /\ t.to_score = t.from_score
        /\ (~ t.from_game /\ t.from_alive) => t.to_game /\ t.to_alive
        /\ (~ t.from_game /\ ~ t.from_alive) =>
              ~ t.to_game /\ t.to_alive /\ t.to_empty
        /\ t.to_game => t.to_alive

\* toggle_menu has just revived a dead bird in the menu, with obstacles around
C6_Witness ==
    \E t \in Range(ev.toggles) :
        ~ t.from_game /\ ~ t.from_alive /\ ~ t.from_empty /\ t.to_alive

\* C7 as stated: the ESCAPE toggle with a dead bird resets the score to 0
\* and leaves both deques and the sprite group empty.
C7_ToggleWhileDeadResets ==
    [][(ev'.op = "toggle" /\ ~ bird.is_alive) =>
          bird'.score = 0 /\ SpawnerEmpty(pipes')]_vars

\* C7 amended: a toggle from MENU with a dead bird resets the score to 0 and
\* leaves both deques and the sprite group empty; the queued deque grows
\* only in a frame update that runs PipeSpawner.update.
C7_MenuToggleWhileDeadResets ==
    [][/\ \A t \in Range(ev'.toggles) :
             (~ t.from_game /\ ~ t.from_alive) => t.to_score = 0 /\ t.to_empty
       /\ (ev'.op = "toggle" /\ ~ in_game /\ ~ bird.is_alive) =>
             bird'.score = 0 /\ SpawnerEmpty(pipes')
       /\ Len(pipes'.waiting_pipes) > Len(pipes.waiting_pipes) => SpawnerRan']_vars

\* the ESCAPE toggle has just reset a session that had scored
C7_Witness ==
    /\ ev.op = "toggle"
    /\ \E t \in Range(ev.toggles) :
          ~ t.from_game /\ ~ t.from_alive /\ t.from_score > 0 /\ ~ t.from_empty
    /\ bird.score = 0 /\ SpawnerEmpty(pipes)

\* C8: die() on a dead bird is a no-op: is_alive stays false.
C8_DieIdempotent ==
    [][(ev'.op = "die" /\ ~ bird.is_alive) => ~ bird'.is_alive]_vars

\* C9: when the bird's bottom is below the floor's top on_ground is true at
\* the end of that frame update; on_ground becomes false again only by a
\* revive; die() is called once in the update that lands a live bird and
\* not at all in the update that lands a dead one.
C9_GroundLatch ==
    [][/\ BirdBottom(bird') > FloorTop => bird'.on_ground
       /\ (bird.on_ground /\ ~ bird'.on_ground) => IsReset
       /\ (~ bird.on_ground /\ bird'.on_ground) =>
             ev'.dies = (IF bird.is_alive THEN 1 ELSE 0)]_vars

\* a bird that an obstacle had killed has just landed: no die() in this update
C9_Witness ==
    /\ ev.op = "tick" /\ bird.on_ground /\ ev.dies = 0
    /\ bird.max_angle = PipeHitMaxAngle
    /\ \E t \in Range(ev.toggles) : t.from_game

\* C10: flap_up() sets vel_y to flap_vel_y when the bird is alive, whatever
\* vel_y was, and leaves vel_y unchanged when the bird is dead.
C10_FlapOverrides ==
    [][ev'.op = "flap" =>
          bird'.vel_y = (IF bird.is_alive THEN flap_vel_y ELSE bird.vel_y)]_vars

\* SPACE has just been pressed on a dead, falling bird
C10_Witness ==
    ev.op = "flap" /\ ~ bird.is_alive /\ bird.vel_y > 0

\* C11: the active deque is ordered left to right: of any two of its
\* obstacles the one nearer the front has the smaller or equal x.
C11_MovingOrderedByX ==
    \A i, j \in 1..Len(pipes.moving_pipes) :
        i < j => pipes.moving_pipes[i].x <= pipes.moving_pipes[j].x

\* a frame update that starts in game with a live bird and runs to the end
\* of PipeSpawner.update: the obstacle tests of Bird.update have run
TestedInGameTick == in_game /\ bird.is_alive /\ ev'.op = "tick" /\ SpawnerRan'

\* the obstacles of q that the bird at its position b would hit
HitsAmong(b, q) == {p \in Range(q) : PipeHit(b, p)}

\* C12: in an in-game frame update the bird is updated before the spawner,
\* and the collision and scoring tests compare the bird's new position with
\* the obstacles' positions as advanced in this same update: die() is called
\* exactly when the bird overlaps an active obstacle where the update leaves
\* it, and an obstacle is newly counted exactly when the update leaves its
\* right edge left of the bird.
C12_TestsUseAdvancedPipes ==
    [][TestedInGameTick =>
          /\ (ev'.dies > 0) = (HitsAmong(bird', pipes'.moving_pipes) # {})
          /\ \A q \in Range(pipes'.moving_pipes) :
                (q.counted /\ ~ (\E p \in Range(pipes.moving_pipes) :
                                    p.id = q.id /\ p.counted))
                   = (\E p \in Range(pipes.moving_pipes) :
                         p.id = q.id /\ ~ p.counted /\ BirdLeft > PipeRight(q))]_vars

\* C13 as stated: the queued deque never holds more than 2 obstacles and
\* holds exactly 2 after every PipeSpawner.update.
C13_WaitingFullAfterUpdate ==
    /\ Len(pipes.waiting_pipes) <= WaitingMaxLen
    /\ SpawnerRan => Len(pipes.waiting_pipes) = WaitingMaxLen

\* the obstacles PipeSpawner.update has activated in this step
Activated == Len(pipes'.moving_pipes) - Len(pipes.moving_pipes)

\* C13 amended: the queued deque never holds more than 2 obstacles;
\* PipeSpawner.update tops it up to 2 before it activates, so after the
\* update it holds 2 less the obstacles activated in that update.
C13_WaitingFullBeforeActivation ==
    [][/\ Len(pipes'.waiting_pipes) <= WaitingMaxLen
       /\ SpawnerRan' =>
             Len(pipes'.waiting_pipes) = WaitingMaxLen - Activated]_vars

\* PipeSpawner.update has just activated the second obstacle: one is queued
C13_Witness ==
    /\ SpawnerRan
    /\ Len(pipes.moving_pipes) = 2
    /\ Len(pipes.waiting_pipes) = 1

\* the rightmost obstacle of a non-empty deque q
Rightmost(q) == CHOOSE p \in Range(q) : \A r \in Range(q) : r.x <= p.x

\* the left edge of the front queued obstacle once the queue is topped up
FrontQueuedLeft(ps) ==
    IF ps.waiting_pipes # <<>> THEN PipeLeft(Head(ps.waiting_pipes)) ELSE ScreenW

\* the activation rule of the claim, on the spawner as the update finds it
ShouldActivate(ps) ==
    \/ ps.moving_pipes = <<>>
    \/ FrontQueuedLeft(ps) - PipeRight(Rightmost(ps.moving_pipes)) > pipe_spacing

\* the ids of the deque q, front to back
Ids(q) == [i \in 1..Len(q) |-> q[i].id]

\* the id of the front queued obstacle once the queue is topped up
FrontQueuedId(ps) ==
    IF ps.waiting_pipes # <<>> THEN Head(ps.waiting_pipes).id ELSE ps.spawned + 1

\* C14: PipeSpawner.update activates the front queued obstacle exactly when
\* no obstacle is active or the gap from the rightmost active obstacle's
\* right edge to the front queued obstacle's left edge exceeds pipe_spacing;
\* the activated obstacle goes to the back of the active deque, and the
\* update tops the queue up with as many new obstacles as it lacked.
C14_ActivationRule ==
    [][SpawnerRan' =>
          /\ Activated = (IF ShouldActivate(pipes) THEN 1 ELSE 0)
          /\ Ids(pipes'.moving_pipes) =
                (IF ShouldActivate(pipes)
                 THEN Append(Ids(pipes.moving_pipes), FrontQueuedId(pipes))
                 ELSE Ids(pipes.moving_pipes))
          /\ pipes'.spawned - pipes.spawned =
                WaitingMaxLen - Len(pipes.waiting_pipes)]_vars

\* with one obstacle active and past the threshold, the update just run
\* has activated the second one; a replacement of the first is queued
C14_Witness ==
    /\ SpawnerRan /\ ev.dt > 0
    /\ Len(pipes.moving_pipes) = 2
    /\ pipes.moving_pipes[2].x = ScreenW + pipe_vel_x * ev.dt
    /\ ScreenW - (PipeRight(pipes.moving_pipes[1]) - pipe_vel_x * ev.dt) > pipe_spacing
    /\ pipes.spawned = 3

\* C15: no frame update moves more than one obstacle from the queued deque
\* to the active deque; the first update of a session, where the empty-deque
\* rule and the spacing rule are both evaluated, activates exactly one.
C15_AtMostOneActivation ==
    [][ev'.op = "tick" =>
          /\ Len(pipes'.moving_pipes) <= Len(pipes.moving_pipes) + 1
          /\ (SpawnerRan' /\ pipes.moving_pipes = <<>>) =>
                /\ Len(pipes'.moving_pipes) = 1
                /\ Len(pipes'.waiting_pipes) = WaitingMaxLen - 1]_vars

\* the first PipeSpawner.update of a session has just run
C15_Witness ==
    /\ SpawnerRan
    /\ pipes.spawned = WaitingMaxLen
    /\ Len(pipes.moving_pipes) = 1
    /\ pipes.moving_pipes[1].x = ScreenW + pipe_vel_x * ev.dt

\* the bird at b is vertically inside the gap of obstacle p: none of its
\* rows meets a pipe segment
InGap(b, p) ==
    /\ p.gap_bottom_y - pipe_gap_height <= b.rect_y
    /\ BirdBottom(b) <= p.gap_bottom_y

\* C16: in a frame update of a live bird, an active obstacle whose rectangle
\* the bird's rectangle overlaps only inside the transparent gap causes no
\* die(); one whose pipe segments the bird overlaps causes die().  (The
\* positions are those the tests of the update see; an update that ends by
\* reviving the bird leaves no such position to look at.)
C16_MaskDecidesDeath ==
    [][(ev'.op = "tick" /\ bird.is_alive /\ ~ IsReset) =>
          \A p \in Range(pipes.moving_pipes) :
             /\ (collide_rect(bird', p) /\ InGap(bird', p)) => ev'.dies = 0
             /\ (collide_rect(bird', p) /\ ~ InGap(bird', p)) =>
                   ev'.dies = 1 /\ ~ bird'.is_alive]_vars

\* the obstacle p as it was before the frame update just run advanced it
BeforeAdvance(p) ==
    IF p.id \in pipes.sprites THEN [p EXCEPT !.x = @ - pipe_vel_x * ev.dt] ELSE p

\* the frame update just run tested a live bird that was flying through the
\* gap of an obstacle, rectangles overlapping, and did not call die()
C16_Witness ==
    /\ SpawnerRan /\ bird.is_alive /\ ev.dies = 0 /\ ev.dt > 0
    /\ \E p \in Range(pipes.moving_pipes) :
          collide_rect(bird, BeforeAdvance(p)) /\ InGap(bird, p)

\* the gap of obstacle p: from the bottom edge of the upper segment to the
\* top edge of the lower segment
GapTop(p) == PipeTop(p) + PipeImgH
GapBottom(p) == PipeBottom(p) - PipeImgH

\* C17: every obstacle has gap_bottom_y in [pipe_gap_height, floor top), so
\* its gap starts at or below the top of the screen and ends above the
\* floor; a queued obstacle is as created: at the screen's right edge,
\* not moving, not counted.
C17_SpawnedPipeShape ==
    /\ \A p \in AllPipes(pipes) :
          /\ pipe_gap_height <= p.gap_bottom_y /\ p.gap_bottom_y < FloorTop
          /\ GapTop(p) >= 0 /\ GapBottom(p) < FloorTop
          /\ GapBottom(p) - GapTop(p) = pipe_gap_height
    /\ \A p \in Range(pipes.waiting_pipes) :
          p.x = ScreenW /\ ~ p.is_moving /\ ~ p.counted

\* two obstacles are queued, one with the highest and one with the lowest gap
C17_Witness ==
    /\ Len(pipes.waiting_pipes) = WaitingMaxLen
    /\ \E p, q \in Range(pipes.waiting_pipes) :
          GapTop(p) = 0 /\ GapBottom(q) = FloorTop - 1

\* the gap is not lower than the space above the floor
InvalidConfig == pipes.pipe_gap_height >= FloorTop

\* C18: a configuration whose gap height is not below the floor's top is
\* rejected when the game is constructed: no frame update and no key
\* handler ever runs in it, and no obstacle is ever made.
C18_InvalidConfigFailsAtStart ==
    InvalidConfig => (ev.op = "init" /\ AllPipes(pipes) = {})

\* C19: the frame update in which the bird lands starts in game, calls
\* toggle_menu from the ground check, which takes the controller from
\* IN_GAME to MENU without reviving, and leaves the spawner as it was (unless
\* the start button, pressed in the same frame, resets the session); while
\* the bird is on the ground no frame update calls toggle_menu from the
\* ground check again.  (In a frame without a press of the start button
\* every toggle_menu call comes from the ground check.)
C19_GroundToMenuOnce ==
    [][ev'.op = "tick" =>
          /\ (~ bird.on_ground /\ (bird'.on_ground \/ ev'.toggles # <<>>)
                /\ ~ (ev'.click /\ ~ in_game)) =>
                /\ in_game /\ ~ in_game'
                /\ LET t == ev'.toggles[1]
                   IN  /\ t.from_game /\ ~ t.to_game
                       /\ ~ t.from_alive /\ ~ t.to_alive
                       /\ t.to_score = t.from_score
                       /\ t.to_empty = t.from_empty
                /\ Len(ev'.toggles) = (IF ev'.click THEN 2 ELSE 1)
                /\ \/ pipes' = pipes /\ bird'.on_ground
                   \/ ev'.click /\ IsReset /\ SpawnerEmpty(pipes')
          /\ (bird.on_ground /\ ~ ev'.click) => ev'.toggles = <<>>
          /\ bird.on_ground => \A t \in Range(ev'.toggles) : ~ t.from_game]_vars

\* a live bird has just landed between obstacles: one die(), one toggle_menu
\* from IN_GAME to MENU, the start button not pressed
C19_Witness ==
    /\ ev.op = "tick" /\ ~ ev.click /\ ev.dt > 0
    /\ bird.on_ground /\ ev.dies = 1 /\ ~ in_game
    /\ Len(ev.toggles) = 1 /\ ev.toggles[1].from_game
    /\ Len(pipes.moving_pipes) >= 2

\* C20: while the bird is on the ground no frame update and no key changes
\* its y, its rectangle or its vel_y, and it stays on the ground, until a
\* toggle_menu resets the session.
C20_FrozenOnGround ==
    [][(bird.on_ground /\ ~ IsReset) =>
          /\ bird'.y = bird.y
          /\ bird'.rect_y = bird.rect_y
          /\ bird'.vel_y = bird.vel_y
          /\ bird'.on_ground]_vars

\* a frame of positive length has just run on a bird that lay on the ground
\* with a velocity still below max_vel_y
C20_Witness ==
    /\ ev.op = "tick" /\ ev.dt > 0 /\ ev.toggles = <<>>
    /\ bird.on_ground /\ bird.vel_y < max_vel_y /\ bird.vel_y > 0

\* the distance from the right edge of the i-th obstacle of the deque q to
\* the left edge of the next one
GapAfter(q, i) == PipeLeft(q[i + 1]) - PipeRight(q[i])

\* C21: for any two consecutive obstacles of the active deque the distance
\* from the right edge of the earlier to the left edge of the later is
\* greater than pipe_spacing, and a step that keeps both in the deque
\* leaves it unchanged.
C21_FixedSpacing ==
    [][\A i \in 1..(Len(pipes'.moving_pipes) - 1) :
          /\ GapAfter(pipes'.moving_pipes, i) > pipe_spacing
          /\ (/\ i + 1 <= Len(pipes.moving_pipes)
              /\ pipes.moving_pipes[i].id = pipes'.moving_pipes[i].id
              /\ pipes.moving_pipes[i + 1].id = pipes'.moving_pipes[i + 1].id) =>
                GapAfter(pipes'.moving_pipes, i) = GapAfter(pipes.moving_pipes, i)]_vars

\* n clamped to [lo, hi]
Clamp(n, lo, hi) == IF n < lo THEN lo ELSE IF n > hi THEN hi ELSE n

\* C22: at the end of every frame update a dead bird has the angle -90,
\* whatever its velocity; a live bird in a frame that ran in game has the
\* angle proportional to its velocity, clamped to [-45, 45].
C22_DeadAngle ==
    /\ (ev.op = "tick" /\ ~ bird.is_alive) => bird.angle = DeadAngle
    /\ (SpawnerRan /\ bird.is_alive) =>
          bird.angle = Clamp(- (bird.vel_y * AnglePerVel), - InitMaxAngle, InitMaxAngle)

\* C23: no PipeSpawner.update raises IndexError: after the top-up there is
\* a queued obstacle for every _move_next_pipe, and moving_pipes[-1] and
\* waiting_pipes[0] exist when they are read, so every update that runs
\* leaves an active and a queued obstacle behind.
C23_NoEmptyDequeIndex ==
    /\ ev.raised # "IndexError"
    /\ SpawnerRan =>
          (ev.raised = "no" => pipes.moving_pipes # <<>> /\ pipes.waiting_pipes # <<>>)

\* the first update of a session has just run on two empty deques: it
\* spawned two obstacles, popped one and read both deques
C23_Witness ==
    /\ SpawnerRan /\ ev.raised = "no"
    /\ Ids(pipes.moving_pipes) = <<1>>
    /\ Ids(pipes.waiting_pipes) = <<2>>

\* C24: a dead bird becomes alive only in a step in which toggle_menu,
\* called in MENU, revives it; no handler calls die() more than once, and
\* none calls it on a bird that was dead when the handler began.
C24_NoResurrection ==
    [][/\ (~ bird.is_alive /\ bird'.is_alive) => IsReset
       /\ ev'.dies <= 1
       /\ ev'.dies = 1 => bird.is_alive
       /\ (ev'.dies = 1 /\ ~ IsReset) => ~ bird'.is_alive]_vars

\* a frame update has just run in game on a dead bird that overlapped a
\* pipe segment of an active obstacle: no die(), the bird is still dead
C24_Witness ==
    /\ SpawnerRan /\ ev.dies = 0
    /\ ~ bird.is_alive /\ ~ bird.on_ground
    /\ \E p \in Range(pipes.moving_pipes) : PipeHit(bird, BeforeAdvance(p))

\* C25: from a state with a dead bird in game, while frames of positive
\* length go on and toggle_menu is not called from outside, the bird gets
\* to the ground and the controller to MENU, whatever SPACE presses come.
C25_EveryRunEnds ==
    (~ bird.is_alive /\ in_game) ~> (bird.on_ground /\ ~ in_game)

\* a bird killed by an obstacle has landed and the game is in MENU
C25_Witness ==
    /\ ev.op = "tick" /\ ev.dt > 0
    /\ bird.on_ground /\ ~ in_game /\ ~ bird.is_alive
    /\ bird.max_angle = PipeHitMaxAngle
    /\ Len(ev.toggles) = 1

\* the running handler called toggle_menu on a dead bird in MENU: revive()
Revived ==
    \E i \in 1..Len(ev.toggles) :
        ~ ev.toggles[i].from_game /\ ~ ev.toggles[i].from_alive

\* C26: after every revive the bird is in the state its constructor left:
\* alive, off the ground, score 0, y and rect at the initial position,
\* vel_y 0, angle 0, max_angle 45, and a state memory that holds the same.
C26_ReviveRestoresConstruction ==
    Revived =>
        /\ bird.is_alive /\ ~ bird.on_ground /\ bird.score = 0
        /\ bird.y = PlayCenterY /\ bird.rect_y = PlayCenterY
        /\ bird.vel_y = 0 /\ bird.angle = 0
        /\ bird.max_angle = InitMaxAngle
        /\ bird = NewGame.bird

\* a bird that had scored and was then killed by an obstacle is revived in
\* the frame of its landing
C26_Witness ==
    /\ ev.op = "tick" /\ Len(ev.toggles) = 2
    /\ ev.toggles[1].from_game /\ ~ ev.toggles[1].from_alive
    /\ ev.toggles[1].from_score > 0
    /\ ~ ev.toggles[2].from_game /\ ~ ev.toggles[2].from_alive
    /\ bird = NewGame.bird

====
